---- MODULE Spec2Model ----
(***************************************************************************)
(* Pixel Pirates API (Cloudflare Worker, src/src/index.ts).                *)
(*                                                                         *)
(* The worker's state is what it keeps in its two bindings: the KV         *)
(* namespace CACHE and the D1 database DB (tables users, posts,            *)
(* analysis_results of migrations/0001_init_schema.sql).  A handler is an  *)
(* async function: between two awaits of a store call it runs alone, and   *)
(* at each await other requests may run.  One action of the model is one   *)
(* such stretch of handleAnalysis.                                         *)
(*                                                                         *)
(* Strings are sequences of UTF-16 code units.  Scores are held in         *)
(* hundredths (0.75 is 75).  A 32-bit integer is held as two 16-bit limbs  *)
(* <<hi, lo>> because 31 * hash does not fit TLC's integers.               *)
(*                                                                         *)
(* Spec runs concurrent analyze requests, ScenarioSpec one analyze request *)
(* on the documented contents, DispatchSpec requests of every method and   *)
(* path through fetch, ListingSpec the posts listing on tables of up to    *)
(* MaxPosts rows, HashSpec hashString on its own.                          *)
(***************************************************************************)
EXTENDS Integers, Sequences, FiniteSets, TLC

\* ------------------------------------------------------------------ bounds
\* number of analyze requests in one run
NumReq == 2
\* the largest posts table the listing is run on
MaxPosts == 22
\* the longest string over HashAlphabet that is hashed
MaxHashLen == 7
\* the clock stops here (seconds)
MaxNow == 3600
\* register requests are taken while users has fewer rows than this
MaxUsers == 2

\* ------------------------------------------------------- program constants
\* { expirationTtl: 3600 }
ExpirationTtl == 3600
\* let credibilityScore = 0.75, in hundredths
ScoreDefault == 75
\* credibilityScore = 0.35, in hundredths
ScoreSuspicious == 35
\* credibilityScore < 0.5, in hundredths
MisinformationBelow == 50
\* confidence: 0.85, in hundredths
Confidence == 85
\* data.user_id || 1
DefaultUserId == 1
\* INSERT OR IGNORE INTO users (id, ...) VALUES (1, ...)
SeedUserId == 1

\* ------------------------------------------------------------------ strings
\* "act now"
StrActNow == <<97, 99, 116, 32, 110, 111, 119>>
\* "bDt now": no keyword in it, and the same hashString as "act now"
StrBDtNow == <<98, 68, 116, 32, 110, 111, 119>>
\* "ACT NOW"
StrActNowUpper == <<65, 67, 84, 32, 78, 79, 87>>
\* "Breaking news: Scientists discover cure for aging!"
StrBreakingNews ==
    <<66, 114, 101, 97, 107, 105, 110, 103, 32, 110, 101, 119, 115, 58, 32, 83, 99,
      105, 101, 110, 116, 105, 115, 116, 115, 32, 100, 105, 115, 99, 111, 118, 101,
      114, 32, 99, 117, 114, 101, 32, 102, 111, 114, 32, 97, 103, 105, 110, 103, 33>>
\* ''
StrEmpty == <<>>

\* the contents a request may carry
Contents == {StrEmpty, StrActNow, StrBDtNow}

\* the contents of the documented scenarios, for the runs of one request
ScenarioContents == {StrEmpty, StrActNow, StrActNowUpper, StrBDtNow, StrBreakingNews}

\* the user_id values a request may carry (2 is a row of users once registered)
UserIds == {0, 1, 2}

\* an optional JSON field: absent, or present with a value of S
Opt(S) == {{}} \cup {{x} : x \in S}

\* String.prototype.toLowerCase on the code units used here (A-Z only)
LowerChar(c) == IF c >= 65 /\ c <= 90 THEN c + 32 ELSE c

toLowerCase(s) == [k \in 1..Len(s) |-> LowerChar(s[k])]

\* String.prototype.includes
includes(s, sub) ==
    \E k \in 0..(Len(s) - Len(sub)) :
        \A j \in 1..Len(sub) : s[k + j] = sub[j]

\* const suspiciousKeywords = ['click here', 'act now', 'limited time', 'guaranteed', 'free money']
suspiciousKeywords ==
    { <<99, 108, 105, 99, 107, 32, 104, 101, 114, 101>>,
      <<97, 99, 116, 32, 110, 111, 119>>,
      <<108, 105, 109, 105, 116, 101, 100, 32, 116, 105, 109, 101>>,
      <<103, 117, 97, 114, 97, 110, 116, 101, 101, 100>>,
      <<102, 114, 101, 101, 32, 109, 111, 110, 101, 121>> }

\* the keywords looked for in the content as sent, not lowered
foundSuspicious_CaseSensitive(content) ==
    \E keyword \in suspiciousKeywords : includes(content, keyword)

\* suspiciousKeywords.some(keyword => contentLower.includes(keyword))
foundSuspicious(content) ==
    \E keyword \in suspiciousKeywords : includes(toLowerCase(content), keyword)

\* ------------------------------------------------------------- hashString
\* 2^16
Limb == 65536
\* a score or confidence x of the code is held as x * 100
Hundredths == 100

\* a 32-bit word <<hi, lo>> from limbs that may have overflowed their 16 bits
Wrap32(hi, lo) == << (hi + (lo \div Limb)) % Limb, lo % Limb >>

\* hash << 5
Shl5(h) == Wrap32(h[1] * 32, h[2] * 32)

\* a - b on 32-bit words
Sub32(a, b) ==
    IF a[2] >= b[2]
    THEN << (a[1] - b[1] + Limb) % Limb, a[2] - b[2] >>
    ELSE << (a[1] - b[1] - 1 + 2 * Limb) % Limb, a[2] - b[2] + Limb >>

\* hash = (hash << 5) - hash + char; hash = hash & hash
HashStep(h, char) ==
    LET d == Sub32(Shl5(h), h) IN Wrap32(d[1], d[2] + char)

\* the 32-bit words
Word32 == (0..(Limb - 1)) \X (0..(Limb - 1))

\* for (let i = 0; i < str.length; i++) { ... }, from index i (1-based) with hash h
HashLoop(str, i, h) ==
    LET loop[k \in 1..(Len(str) + 1), w \in Word32] ==
            IF k > Len(str) THEN w ELSE loop[k + 1, HashStep(w, str[k])]
    IN loop[i, h]

\* the sign bit of a 32-bit word
Negative32(h) == h[1] >= 32768

\* the hash returned as it is, without Math.abs
Abs32_None(h) == h

\* Math.abs of the signed value of a 32-bit word, as limbs (2^31 is <<32768, 0>>)
Abs32(h) == IF Negative32(h) THEN Sub32(<<0, 0>>, h) ELSE h

\* function hashString(str: string): number
hashString(str) == Abs32(HashLoop(str, 1, <<0, 0>>))

RECURSIVE Decimal(_)
\* the decimal digits of a non-negative number held as limbs (template literal ${n})
Decimal(n) ==
    LET r1 == n[1] % 10
        mid == r1 * Limb + n[2]
        q == << n[1] \div 10, mid \div 10 >>
        digit == 48 + (mid % 10)
    IN IF q = <<0, 0>> THEN <<digit>> ELSE Append(Decimal(q), digit)

\* "analysis_"
CachePrefix == <<97, 110, 97, 108, 121, 115, 105, 115, 95>>

\* const cacheKey = `analysis_${hashString(content)}`
cacheKey(content) == CachePrefix \o Decimal(hashString(content))

\* -------------------------------------------------------------------- state
VARIABLES
    \* env.CACHE: key -> [value, expiration]
    cache,
    \* table users of env.DB
    users,
    \* table posts of env.DB, in insertion order
    posts,
    \* table analysis_results of env.DB, in insertion order
    analysis_results,
    \* the known_fakes registry of DATA_STORAGE.md
    known_fakes,
    \* the clock, in seconds
    now,
    \* the analyze requests: where each handler stands, its locals, its response
    req,
    \* the latest call that a specification records: its input, and what it
    \* answered (the runs of concurrent analyze requests record none)
    call

vars == <<cache, users, posts, analysis_results, known_fakes, now, req, call>>

Requests == 1..NumReq

\* no response yet
NoResponse == [status |-> 0, body |-> [none |-> TRUE]]

\* jsonResponse(data, headers, status)
jsonResponse(data, status) == [status |-> status, body |-> data]

\* a handler that has not been called
IdleRequest ==
    [pc |-> "idle", content |-> StrEmpty, userId |-> 0, credibilityScore |-> 0,
     isMisinformation |-> FALSE, cacheKey |-> << >>, postId |-> 0,
     resp |-> NoResponse,
     \* history: whether, when it arrived, a request with the same content had
     \* succeeded and its cache entry was still valid; when its own cache write
     \* landed (-1: it has not)
     repeat |-> FALSE, putAt |-> -1]

\* no call recorded
NoCall ==
    [seq |-> 0, method |-> "", pathname |-> << >>, data |-> [none |-> TRUE],
     route |-> "", handler |-> "", resp |-> NoResponse]

\* the row the migration inserts into users
SeedUser ==
    [id |-> SeedUserId, username |-> "admin", email |-> "admin@pixelpirates.com",
     hashed_password |-> <<"$2b$12$">>]

\* a known_fakes row for the content "act now"
SeedKnownFake ==
    [content_hash |-> hashString(StrActNow), verified_fake |-> TRUE, report_count |-> 1]

Init ==
    /\ cache = << >>
    /\ users = {SeedUser}
    /\ posts = << >>
    /\ analysis_results = << >>
    /\ known_fakes = {SeedKnownFake}
    /\ now = 0
    /\ req = [i \in Requests |-> IdleRequest]
    /\ call = NoCall

\* --------------------------------------------------------- handleAnalysis
\* data.content || ''
ContentOf(data) ==
    IF data.content = {} THEN StrEmpty ELSE CHOOSE c \in data.content : TRUE

\* data.user_id || 1
UserIdOf(data) ==
    IF data.user_id = {} \/ data.user_id = {0}
    THEN DefaultUserId
    ELSE CHOOSE u \in data.user_id : TRUE

\* the check of the content left out
ContentRequired_Never(content) == FALSE

\* if (!content)
ContentRequired(content) == content = StrEmpty

\* a score that also looks at the posts table: a content posted before is suspicious
credibilityScoreOf_SeenBefore(content) ==
    IF foundSuspicious(content) \/ (\E k \in DOMAIN posts : posts[k].content = content)
    THEN ScoreSuspicious
    ELSE ScoreDefault

\* a score that takes a penalty off the suspicious score
credibilityScoreOf_Penalised(content) ==
    IF foundSuspicious(content)
    THEN ScoreSuspicious - MisinformationBelow
    ELSE ScoreDefault

\* let credibilityScore = 0.75; if (foundSuspicious) credibilityScore = 0.35
credibilityScoreOf(content) ==
    IF foundSuspicious(content) THEN ScoreSuspicious ELSE ScoreDefault

\* const isMisinformation = credibilityScore < 0.5
isMisinformationOf(credibilityScore) == credibilityScore < MisinformationBelow

\* a cache value whose flag is left at its default
CacheValue_Unflagged(credibilityScore, isMisinformation) ==
    [credibility_score |-> credibilityScore, is_misinformation |-> FALSE]

\* JSON.stringify({ credibility_score, is_misinformation })
CacheValue(credibilityScore, isMisinformation) ==
    [credibility_score |-> credibilityScore, is_misinformation |-> isMisinformation]

\* a cache write whose TTL is taken as milliseconds
CachePut_TtlMillis(c, key, value) ==
    [k \in DOMAIN c \cup {key} |->
        IF k = key
        THEN [value |-> value, expiration |-> now + ExpirationTtl * 1000]
        ELSE c[k]]

\* env.CACHE.put(key, value, { expirationTtl: 3600 })
CachePut(c, key, value) ==
    [k \in DOMAIN c \cup {key} |->
        IF k = key
        THEN [value |-> value, expiration |-> now + ExpirationTtl]
        ELSE c[k]]

\* the keys KV still holds at time t: an entry is gone once its expiration is reached
Unexpired(c, t) == [k \in {x \in DOMAIN c : c[x].expiration > t} |-> c[k]]

\* a catch block that answers with a default verdict
AnalysisFailed_BestGuess ==
    jsonResponse(
        [credibility_score |-> ScoreDefault, is_misinformation |-> FALSE,
         confidence |-> Confidence],
        200)

\* the catch block of handleAnalysis
AnalysisFailed == jsonResponse([error |-> "Analysis failed"], 500)

\* the success response of handleAnalysis
AnalysisResponse(postId, credibilityScore, isMisinformation) ==
    jsonResponse(
        [post_id |-> postId,
         credibility_score |-> credibilityScore,
         is_misinformation |-> isMisinformation,
         confidence |-> Confidence,
         recommendation |->
            IF isMisinformation
            THEN "Verify with additional sources"
            ELSE "Content appears credible"],
        200)

\* a request with this content has been answered with a success, and the cache
\* entry it wrote is inside its validity window
Repeated(content) ==
    \E j \in Requests :
        /\ req[j].pc = "done"
        /\ req[j].resp.status = 200
        /\ req[j].content = content
        /\ now < req[j].putAt + ExpirationTtl

\* POST analyze arrives: the handler runs up to its first store call
AnalyzeStart(i, data) ==
    /\ req[i].pc = "idle"
    /\ \A j \in Requests : j < i => req[j].pc # "idle"
    /\ LET content == ContentOf(data)
           credibilityScore == credibilityScoreOf(content)
       IN req' = [req EXCEPT ![i] =
            IF ContentRequired(content)
            THEN [@ EXCEPT !.pc = "done",
                           !.resp = jsonResponse([error |-> "Content required"], 400)]
            ELSE [@ EXCEPT !.pc = "cache_put",
                           !.content = content,
                           !.userId = UserIdOf(data),
                           !.credibilityScore = credibilityScore,
                           !.isMisinformation = isMisinformationOf(credibilityScore),
                           !.cacheKey = cacheKey(content),
                           !.repeat = Repeated(content)]]
    /\ UNCHANGED <<cache, users, posts, analysis_results, known_fakes, now>>

\* POST analyze in the runs that record no call
AnalyzeBegin(i, data) == AnalyzeStart(i, data) /\ UNCHANGED call

\* a cache write under a key that also names the user
CachePutOk_PerUserKey(i) ==
    /\ req[i].pc = "cache_put"
    /\ cache' = CachePut(cache, Append(req[i].cacheKey, req[i].userId),
                         CacheValue(req[i].credibilityScore, req[i].isMisinformation))
    /\ req' = [req EXCEPT ![i].pc = "insert_post", ![i].putAt = now]
    /\ UNCHANGED <<users, posts, analysis_results, known_fakes, now, call>>

\* await env.CACHE.put(...) returns
CachePutOk(i) ==
    /\ req[i].pc = "cache_put"
    /\ cache' = CachePut(cache, req[i].cacheKey,
                         CacheValue(req[i].credibilityScore, req[i].isMisinformation))
    /\ req' = [req EXCEPT ![i].pc = "insert_post", ![i].putAt = now]
    /\ UNCHANGED <<users, posts, analysis_results, known_fakes, now, call>>

\* await env.CACHE.put(...) throws
CachePutFail(i) ==
    /\ req[i].pc = "cache_put"
    /\ req' = [req EXCEPT ![i].pc = "done", ![i].resp = AnalysisFailed]
    /\ UNCHANGED <<cache, users, posts, analysis_results, known_fakes, now, call>>

\* FOREIGN KEY (user_id) REFERENCES users(id)
UserExists(userId) == \E u \in users : u.id = userId

\* INSERT INTO posts (user_id, content) VALUES (?, ?)
PostRow(id, userId, content) ==
    [id |-> id, user_id |-> userId, content |-> content, created_at |-> now]

\* a post written over the user's latest row when the user has one
InsertPostOk_Overwrite(i) ==
    /\ req[i].pc = "insert_post"
    /\ UserExists(req[i].userId)
    /\ LET mine == {k \in DOMAIN posts : posts[k].user_id = req[i].userId}
           id == IF mine = {} THEN Len(posts) + 1
                 ELSE CHOOSE k \in mine : \A m \in mine : m <= k
       IN /\ posts' = IF mine = {}
                      THEN Append(posts, PostRow(id, req[i].userId, req[i].content))
                      ELSE [posts EXCEPT ![id] = PostRow(id, req[i].userId, req[i].content)]
          /\ req' = [req EXCEPT ![i].pc = "insert_analysis", ![i].postId = id]
    /\ UNCHANGED <<cache, users, analysis_results, known_fakes, now, call>>

\* the response sent once the post is inserted, the second INSERT left running
InsertPostOk_RespondEarly(i) ==
    /\ req[i].pc = "insert_post"
    /\ UserExists(req[i].userId)
    /\ posts' = Append(posts, PostRow(Len(posts) + 1, req[i].userId, req[i].content))
    /\ req' = [req EXCEPT
            ![i].pc = "insert_analysis",
            ![i].postId = Len(posts) + 1,
            ![i].resp = AnalysisResponse(Len(posts) + 1, req[i].credibilityScore,
                                         req[i].isMisinformation)]
    /\ UNCHANGED <<cache, users, analysis_results, known_fakes, now, call>>

\* await env.DB.prepare('INSERT INTO posts ...').run() returns
InsertPostOk(i) ==
    /\ req[i].pc = "insert_post"
    /\ UserExists(req[i].userId)
    /\ posts' = Append(posts, PostRow(Len(posts) + 1, req[i].userId, req[i].content))
    /\ req' = [req EXCEPT ![i].pc = "insert_analysis", ![i].postId = Len(posts) + 1]
    /\ UNCHANGED <<cache, users, analysis_results, known_fakes, now, call>>

\* a failed posts INSERT answered by running the request again from the cache write
InsertPostFail_Retry(i) ==
    /\ req[i].pc = "insert_post"
    /\ req' = [req EXCEPT ![i].pc = "cache_put"]
    /\ UNCHANGED <<cache, users, posts, analysis_results, known_fakes, now, call>>

\* await env.DB.prepare('INSERT INTO posts ...').run() throws
InsertPostFail(i) ==
    /\ req[i].pc = "insert_post"
    /\ req' = [req EXCEPT ![i].pc = "done", ![i].resp = AnalysisFailed]
    /\ UNCHANGED <<cache, users, posts, analysis_results, known_fakes, now, call>>

\* INSERT INTO analysis_results (post_id, user_id, credibility_score, ...)
AnalysisRow(id, postId, userId, credibilityScore, isMisinformation) ==
    [id |-> id, post_id |-> postId, user_id |-> userId,
     credibility_score |-> credibilityScore,
     is_misinformation |-> IF isMisinformation THEN 1 ELSE 0,
     confidence |-> Confidence, analysis_type |-> "basic"]

\* an analysis row bound to the latest posts row instead of postResult.meta.last_row_id
InsertAnalysisOk_LatestPost(i) ==
    /\ req[i].pc = "insert_analysis"
    /\ analysis_results' = Append(analysis_results,
            AnalysisRow(Len(analysis_results) + 1, Len(posts), req[i].userId,
                        req[i].credibilityScore, req[i].isMisinformation))
    /\ req' = [req EXCEPT
            ![i].pc = "done",
            ![i].postId = Len(posts),
            ![i].resp = AnalysisResponse(Len(posts), req[i].credibilityScore,
                                         req[i].isMisinformation)]
    /\ UNCHANGED <<cache, users, posts, known_fakes, now, call>>

\* await env.DB.prepare('INSERT INTO analysis_results ...').run() returns
InsertAnalysisOk(i) ==
    /\ req[i].pc = "insert_analysis"
    /\ analysis_results' = Append(analysis_results,
            AnalysisRow(Len(analysis_results) + 1, req[i].postId, req[i].userId,
                        req[i].credibilityScore, req[i].isMisinformation))
    /\ req' = [req EXCEPT
            ![i].pc = "done",
            ![i].resp = AnalysisResponse(req[i].postId, req[i].credibilityScore,
                                         req[i].isMisinformation)]
    /\ UNCHANGED <<cache, users, posts, known_fakes, now, call>>

\* await env.DB.prepare('INSERT INTO analysis_results ...').run() throws
InsertAnalysisFail(i) ==
    /\ req[i].pc = "insert_analysis"
    /\ req' = [req EXCEPT ![i].pc = "done", ![i].resp = AnalysisFailed]
    /\ UNCHANGED <<cache, users, posts, analysis_results, known_fakes, now, call>>

\* -------------------------------------------------- handleAuth: register
\* the JSON bodies a caller may send to register
RegisterBodies ==
    [email : Opt({"admin@pixelpirates.com", "u2@example.com"}),
     password : Opt({"pw"}),
     username : Opt({"admin", "u2"})]

\* data.username || data.email
UsernameOf(data) ==
    IF data.username = {}
    THEN CHOOSE e \in data.email : TRUE
    ELSE CHOOSE n \in data.username : TRUE

\* a users table whose email alone is unique
UniqueViolation_EmailOnly(username, email) ==
    \E u \in users : u.email = email

\* username TEXT UNIQUE NOT NULL, email TEXT UNIQUE NOT NULL
UniqueViolation(username, email) ==
    \E u \in users : u.username = username \/ u.email = email

\* id INTEGER PRIMARY KEY AUTOINCREMENT
NextUserId == Cardinality(users) + 1

\* const hashedPassword = `hashed_${data.password}`
HashedPassword(password) == <<"hashed_", password>>

\* !data.email || !data.password
RegisterFieldMissing(data) == data.email = {} \/ data.password = {}

\* the catch block of register
RegistrationFailed == jsonResponse([error |-> "Registration failed"], 400)

\* POST register: what the handler may answer and the users table it leaves.
\* After the validation the INSERT INTO users either returns, which the UNIQUE
\* constraints allow for a new username and a new email only, or throws (a
\* UNIQUE violation, a D1 error), which the catch block answers.
handleRegister(data) ==
    IF RegisterFieldMissing(data)
    THEN {[resp |-> jsonResponse([error |-> "Email and password required"], 400),
           users |-> users]}
    ELSE LET email == CHOOSE e \in data.email : TRUE
             password == CHOOSE w \in data.password : TRUE
             username == UsernameOf(data)
         IN {[resp |-> jsonResponse([message |-> "User registered successfully",
                                     user_id |-> NextUserId], 200),
              users |-> users \cup {[id |-> NextUserId, username |-> username,
                                      email |-> email,
                                      hashed_password |-> HashedPassword(password)]}] :
                ok \in IF UniqueViolation(username, email) THEN {} ELSE {TRUE}}
            \cup {[resp |-> RegistrationFailed, users |-> users]}

\* POST register in the runs that record no call: a register that is refused
\* changes nothing there, it is a stuttering step and left out
Register(data) ==
    /\ ~RegisterFieldMissing(data)
    /\ \E o \in handleRegister(data) :
        /\ o.users # users
        /\ Cardinality(o.users) <= MaxUsers
        /\ users' = o.users
    /\ UNCHANGED <<cache, posts, analysis_results, known_fakes, now, req, call>>

\* const userId = 1
PostsUserId == 1

\* LIMIT 20
PostsLimit == 20

\* the query with an inner join
JoinPairs_Inner(userId) ==
    {pa \in (DOMAIN posts) \X (DOMAIN analysis_results) :
        /\ posts[pa[1]].user_id = userId
        /\ analysis_results[pa[2]].post_id = posts[pa[1]].id}

\* posts p LEFT JOIN analysis_results a ON p.id = a.post_id WHERE p.user_id = ?
\* as pairs <<index in posts, index in analysis_results>>, 0 for no match
JoinPairs(userId) ==
    {pa \in (DOMAIN posts) \X ((DOMAIN analysis_results) \cup {0}) :
        /\ posts[pa[1]].user_id = userId
        /\ IF pa[2] = 0
           THEN \A a \in DOMAIN analysis_results :
                    analysis_results[a].post_id # posts[pa[1]].id
           ELSE analysis_results[pa[2]].post_id = posts[pa[1]].id}

RECURSIVE OrderByCreatedAtDesc(_)
\* ORDER BY p.created_at DESC: every order of the pairs that the clause
\* allows, rows of equal created_at in any order
OrderByCreatedAtDesc(pairs) ==
    IF pairs = {}
    THEN {<< >>}
    ELSE UNION {{<<x>> \o o : o \in OrderByCreatedAtDesc(pairs \ {x})} :
                    x \in {y \in pairs :
                            \A z \in pairs :
                                posts[y[1]].created_at >= posts[z[1]].created_at}}

\* SELECT p.*, a.credibility_score, a.is_misinformation; the columns of a are
\* NULL (the empty set) for a post without analysis row
ListingRow(pa) ==
    [id |-> posts[pa[1]].id,
     user_id |-> posts[pa[1]].user_id,
     content |-> posts[pa[1]].content,
     created_at |-> posts[pa[1]].created_at,
     credibility_score |->
        IF pa[2] = 0 THEN {} ELSE {analysis_results[pa[2]].credibility_score},
     is_misinformation |->
        IF pa[2] = 0 THEN {} ELSE {analysis_results[pa[2]].is_misinformation}]

\* the first n elements of seq
Limit(seq, n) == SubSeq(seq, 1, IF Len(seq) < n THEN Len(seq) ELSE n)

\* GET posts: the responses the handler may give to the caller in this state,
\* the listing of user 1 in an order the query allows, or 500 when the query
\* throws
handlePosts(caller) ==
    {jsonResponse([posts |-> Limit([x \in DOMAIN o |-> ListingRow(o[x])], PostsLimit),
                   count |-> Len(Limit(o, PostsLimit))], 200) :
        o \in OrderByCreatedAtDesc(JoinPairs(PostsUserId))}
    \cup {jsonResponse([error |-> "Failed to fetch posts"], 500)}

\* the users who may call
Callers == {u.id : u \in users}

\* GET posts reads and writes nothing
GetPosts(caller) ==
    /\ handlePosts(caller) # {}
    /\ UNCHANGED vars

\* the steps of the clock
TickSteps == {ExpirationTtl}

\* time passes; KV drops the entries whose expiration is reached
Tick(d) ==
    /\ now + d <= MaxNow
    /\ now' = now + d
    /\ cache' = Unexpired(cache, now + d)
    /\ UNCHANGED <<users, posts, analysis_results, known_fakes, req, call>>

\* the JSON bodies a caller may send
AnalyzeBodies == [content : Opt(Contents), user_id : Opt(UserIds)]

Next ==
    \/ \E i \in Requests, data \in AnalyzeBodies : AnalyzeBegin(i, data)
    \/ \E i \in Requests : CachePutOk(i)
    \/ \E i \in Requests : CachePutFail(i)
    \/ \E i \in Requests : InsertPostOk(i)
    \/ \E i \in Requests : InsertPostFail(i)
    \/ \E i \in Requests : InsertAnalysisOk(i)
    \/ \E i \in Requests : InsertAnalysisFail(i)
    \/ \E data \in RegisterBodies : Register(data)
    \/ \E caller \in Callers : GetPosts(caller)
    \/ \E d \in TickSteps : Tick(d)

Spec == Init /\ [][Next]_vars

\* the JSON bodies of the documented scenarios
ScenarioBodies == [content : Opt(ScenarioContents), user_id : Opt(UserIds)]

\* one analyze request, carrying a content of the documented scenarios
ScenarioNext ==
    \/ \E data \in ScenarioBodies : AnalyzeBegin(1, data)
    \/ \E i \in Requests : CachePutOk(i)
    \/ \E i \in Requests : CachePutFail(i)
    \/ \E i \in Requests : InsertPostOk(i)
    \/ \E i \in Requests : InsertPostFail(i)
    \/ \E i \in Requests : InsertAnalysisOk(i)
    \/ \E i \in Requests : InsertAnalysisFail(i)
    \/ \E data \in RegisterBodies : Register(data)
    \/ \E caller \in Callers : GetPosts(caller)
    \/ \E d \in TickSteps : Tick(d)

ScenarioSpec == Init /\ [][ScenarioNext]_vars

\* ------------------------------------------------------------------- fetch
\* 'health'
StrHealth == <<104, 101, 97, 108, 116, 104>>
\* '/auth'
StrAuth == <<47, 97, 117, 116, 104>>
\* '/analyze'
StrAnalyze == <<47, 97, 110, 97, 108, 121, 122, 101>>
\* '/posts'
StrPosts == <<47, 112, 111, 115, 116, 115>>
\* 'register'
StrRegister == <<114, 101, 103, 105, 115, 116, 101, 114>>
\* 'login'
StrLogin == <<108, 111, 103, 105, 110>>
\* '/'
PathRoot == <<47>>
\* '/api/v1'
PathApiV1 == <<47, 97, 112, 105, 47, 118, 49>>
\* '/api/v1/health'
PathHealth == <<47, 97, 112, 105, 47, 118, 49, 47, 104, 101, 97, 108, 116, 104>>
\* '/api/v1/auth/health'
PathAuthHealth == <<47, 97, 112, 105, 47, 118, 49, 47, 97, 117, 116, 104, 47, 104, 101, 97, 108, 116, 104>>
\* '/api/v1/auth/register'
PathRegister == <<47, 97, 112, 105, 47, 118, 49, 47, 97, 117, 116, 104, 47, 114, 101, 103, 105, 115, 116, 101, 114>>
\* '/api/v1/auth/login'
PathLogin == <<47, 97, 112, 105, 47, 118, 49, 47, 97, 117, 116, 104, 47, 108, 111, 103, 105, 110>>
\* '/api/v1/auth/me'
PathAuthMe == <<47, 97, 112, 105, 47, 118, 49, 47, 97, 117, 116, 104, 47, 109, 101>>
\* '/api/v1/analyze'
PathAnalyze == <<47, 97, 112, 105, 47, 118, 49, 47, 97, 110, 97, 108, 121, 122, 101>>
\* '/api/v1/posts'
PathPosts == <<47, 97, 112, 105, 47, 118, 49, 47, 112, 111, 115, 116, 115>>
\* '/api/v1/auth/analyze'
PathAuthAnalyze == <<47, 97, 112, 105, 47, 118, 49, 47, 97, 117, 116, 104, 47, 97, 110, 97, 108, 121, 122, 101>>
\* '/api/v1/analyze/posts'
PathAnalyzePosts == <<47, 97, 112, 105, 47, 118, 49, 47, 97, 110, 97, 108, 121, 122, 101, 47, 112, 111, 115, 116, 115>>
\* '/api/v1/users'
PathUsers == <<47, 97, 112, 105, 47, 118, 49, 47, 117, 115, 101, 114, 115>>

\* the paths and methods of the requests given to fetch
Paths ==
    {PathRoot, PathApiV1, PathHealth, PathAuthHealth,
     PathRegister, PathLogin, PathAuthMe, PathAnalyze,
     PathPosts, PathAuthAnalyze, PathAnalyzePosts, PathUsers}

Methods == {"GET", "POST", "OPTIONS"}

\* a dispatch that looks for '/auth' before 'health'
Route_AuthFirst(method, pathname) ==
    IF method = "OPTIONS" THEN "preflight"
    ELSE IF includes(pathname, StrAuth) THEN "handleAuth"
    ELSE IF includes(pathname, StrHealth) THEN "health"
    ELSE IF pathname = PathRoot \/ pathname = PathApiV1 THEN "root"
    ELSE IF includes(pathname, StrAnalyze) THEN "handleAnalysis"
    ELSE IF includes(pathname, StrPosts) THEN "handlePosts"
    ELSE "notFound"

\* fetch: which branch answers the request
Route(method, pathname) ==
    IF method = "OPTIONS" THEN "preflight"
    ELSE IF includes(pathname, StrHealth) THEN "health"
    ELSE IF pathname = PathRoot \/ pathname = PathApiV1 THEN "root"
    ELSE IF includes(pathname, StrAuth) THEN "handleAuth"
    ELSE IF includes(pathname, StrAnalyze) THEN "handleAnalysis"
    ELSE IF includes(pathname, StrPosts) THEN "handlePosts"
    ELSE "notFound"

\* handleAuth: which branch answers the request
AuthBranch(method, pathname) ==
    IF includes(pathname, StrRegister) /\ method = "POST" THEN "register"
    ELSE IF includes(pathname, StrLogin) /\ method = "POST" THEN "login"
    ELSE "methodNotAllowed"

\* return jsonResponse({ error: 'Method not allowed' }, headers, 405)
MethodNotAllowed == jsonResponse([error |-> "Method not allowed"], 405)

\* the branch that answers, with the branch inside the handler: the POST of
\* handleAnalysis, the GET of handlePosts, a branch of handleAuth
Handler(method, pathname) ==
    LET route == Route(method, pathname)
    IN IF route = "handleAuth" THEN AuthBranch(method, pathname)
       ELSE IF route = "handleAnalysis"
            THEN IF method = "POST" THEN "analyze" ELSE "methodNotAllowed"
       ELSE IF route = "handlePosts"
            THEN IF method = "GET" THEN "posts" ELSE "methodNotAllowed"
       ELSE route

\* Route, computed once for each request
RouteTable == [method \in Methods, pathname \in Paths |-> Route(method, pathname)]

\* Handler, computed once for each request
HandlerTable == [method \in Methods, pathname \in Paths |-> Handler(method, pathname)]

\* the answer of the branches that call no store
Answer(handler) ==
    CASE handler = "preflight" -> [status |-> 204, body |-> [null |-> TRUE]]
      [] handler = "health" ->
            jsonResponse([status |-> "healthy", service |-> "Pixel Pirates API"], 200)
      [] handler = "root" -> jsonResponse([status |-> "running", docs |-> "/docs"], 200)
      [] handler = "methodNotAllowed" -> MethodNotAllowed
      [] handler = "notFound" -> jsonResponse([error |-> "Not found"], 404)

\* the call recorded for a request and its answer
Recorded(method, pathname, data, resp) ==
    [seq |-> 1 - call.seq, method |-> method, pathname |-> pathname, data |-> data,
     route |-> RouteTable[method, pathname],
     handler |-> HandlerTable[method, pathname], resp |-> resp]

\* a request answered without a store call
FetchPlain(method, pathname) ==
    /\ HandlerTable[method, pathname] \in
            {"preflight", "health", "root", "methodNotAllowed", "notFound"}
    /\ call' = Recorded(method, pathname, [none |-> TRUE],
                        Answer(HandlerTable[method, pathname]))
    /\ UNCHANGED <<cache, users, posts, analysis_results, known_fakes, now, req>>

\* POST register
FetchRegister(method, pathname) ==
    /\ HandlerTable[method, pathname] = "register"
    /\ \E data \in RegisterBodies : \E o \in handleRegister(data) :
        /\ Cardinality(o.users) <= MaxUsers
        /\ users' = o.users
        /\ call' = Recorded(method, pathname, data, o.resp)
    /\ UNCHANGED <<cache, posts, analysis_results, known_fakes, now, req>>

\* the JSON bodies a caller may send to login
LoginBodies ==
    [email : Opt({"admin@pixelpirates.com", "u2@example.com", "nobody@example.com"}),
     password : Opt({"pw", "wrong"})]

\* the catch block of login
LoginFailed == jsonResponse([error |-> "Login failed"], 500)

\* the success response of login; Date.now() is the clock
LoginResponse(u) ==
    jsonResponse([access_token |-> <<"token", u.id, now>>, token_type |-> "bearer",
                  user |-> [id |-> u.id, email |-> u.email, username |-> u.username]],
                 200)

\* a login that compares the stored password hash
handleLogin_PasswordChecked(data) ==
    LET found == {u \in users :
                    /\ data.email = {u.email}
                    /\ \E w \in data.password : u.hashed_password = HashedPassword(w)}
    IN (IF found = {}
        THEN {jsonResponse([error |-> "Invalid credentials"], 401)}
        ELSE {LoginResponse(u) : u \in found})
       \cup {LoginFailed}

\* POST login: what the handler may answer.  SELECT * FROM users WHERE email = ?
\* either returns the row of that email or none (none for a body without
\* email, if the bind takes it), or throws, which the catch block answers.
handleLogin(data) ==
    LET found == {u \in users : data.email = {u.email}}
    IN (IF found = {}
        THEN {jsonResponse([error |-> "Invalid credentials"], 401)}
        ELSE {LoginResponse(u) : u \in found})
       \cup {LoginFailed}

\* POST login
FetchLogin(method, pathname) ==
    /\ HandlerTable[method, pathname] = "login"
    /\ \E data \in LoginBodies : \E r \in handleLogin(data) :
        call' = Recorded(method, pathname, data, r)
    /\ UNCHANGED <<cache, users, posts, analysis_results, known_fakes, now, req>>

\* a listing that is also kept in the cache
FetchPosts_Cached(method, pathname) ==
    /\ HandlerTable[method, pathname] = "posts"
    /\ \E caller \in Callers : \E r \in handlePosts(caller) :
        /\ call' = Recorded(method, pathname, [caller |-> caller], r)
        /\ cache' = CachePut(cache, StrPosts, r.body)
    /\ UNCHANGED <<users, posts, analysis_results, known_fakes, now, req>>

\* GET posts
FetchPosts(method, pathname) ==
    /\ HandlerTable[method, pathname] = "posts"
    /\ \E caller \in Callers : \E r \in handlePosts(caller) :
        call' = Recorded(method, pathname, [caller |-> caller], r)
    /\ UNCHANGED <<cache, users, posts, analysis_results, known_fakes, now, req>>

\* the JSON bodies sent to analyze in the runs of the dispatch
DispatchAnalyzeBodies == [content : Opt({StrActNow}), user_id : Opt({2})]

\* POST analyze: the handler runs up to its first store call; its response is
\* the one of request 1
FetchAnalyze(method, pathname) ==
    /\ HandlerTable[method, pathname] = "analyze"
    /\ \E data \in DispatchAnalyzeBodies :
        /\ AnalyzeStart(1, data)
        /\ call' = Recorded(method, pathname, data, NoResponse)

\* requests of every method and path, one of them an analyze request
DispatchNext ==
    \/ \E method \in Methods, pathname \in Paths : FetchPlain(method, pathname)
    \/ \E method \in Methods, pathname \in Paths : FetchRegister(method, pathname)
    \/ \E method \in Methods, pathname \in Paths : FetchLogin(method, pathname)
    \/ \E method \in Methods, pathname \in Paths : FetchPosts(method, pathname)
    \/ \E method \in Methods, pathname \in Paths : FetchAnalyze(method, pathname)
    \/ \E i \in Requests : CachePutOk(i)
    \/ \E i \in Requests : CachePutFail(i)
    \/ \E i \in Requests : InsertPostOk(i)
    \/ \E i \in Requests : InsertPostFail(i)
    \/ \E i \in Requests : InsertAnalysisOk(i)
    \/ \E i \in Requests : InsertAnalysisFail(i)

DispatchSpec == Init /\ [][DispatchNext]_vars

\* a users row that register inserts after the seed
SecondUser ==
    [id |-> 2, username |-> "u2", email |-> "u2@example.com",
     hashed_password |-> HashedPassword("pw")]

\* the tables after n analyze requests for the content 'act now', one a second
\* from second 1 on: with ties = 1 the two newest posts share their second,
\* with ties = 2 the two oldest; with every > 0 the analysis_results INSERT
\* of each every-th request threw; with other, each fifth request was sent
\* for the second user.  The cache entries have expired.
ListingInit ==
    \E n \in 0..MaxPosts, ties \in 0..2, every \in {0, 2, 3}, other \in BOOLEAN :
        LET ids == [k \in 1..n |-> k]
            Analysed(k) == every = 0 \/ k % every # 0
            analysed == SelectSeq(ids, Analysed)
            userOf(k) == IF other /\ k % 5 = 0 THEN 2 ELSE SeedUserId
            second(k) == IF ties = 1 /\ k = n /\ n > 1 THEN n - 1
                         ELSE IF ties = 2 /\ k = 1 /\ n > 1 THEN 2
                         ELSE k
            score == credibilityScoreOf(StrActNow)
        IN /\ posts = [k \in 1..n |->
                          [id |-> k, user_id |-> userOf(k), content |-> StrActNow,
                           created_at |-> second(k)]]
           /\ analysis_results = [j \in 1..Len(analysed) |->
                    AnalysisRow(j, analysed[j], userOf(analysed[j]), score,
                                isMisinformationOf(score))]
           /\ users = IF other THEN {SeedUser, SecondUser} ELSE {SeedUser}
           /\ cache = << >>
           /\ known_fakes = {SeedKnownFake}
           /\ now = MaxPosts + ExpirationTtl
           /\ req = [i \in Requests |-> IdleRequest]
           /\ call = NoCall

\* GET posts on these tables
ListingNext == \E method \in Methods, pathname \in Paths : FetchPosts(method, pathname)

ListingSpec == ListingInit /\ [][ListingNext]_vars

\* --------------------------------------------------------- hashString alone
\* "xfjfxtf": its hash is -2^31 before Math.abs
StrMinInt == <<120, 102, 106, 102, 120, 116, 102>>

\* code units 'a' and 0xFFFF
HashAlphabet == {97, 65535}

\* the strings hashed: every string over HashAlphabet up to MaxHashLen, and
\* the contents used elsewhere
HashInputs ==
    UNION {[1..n -> HashAlphabet] : n \in 0..MaxHashLen}
        \cup {StrActNow, StrBDtNow, StrActNowUpper, StrBreakingNews, StrMinInt}

\* a string is given to hashString
HashInit ==
    /\ cache = << >>
    /\ users = {SeedUser}
    /\ posts = << >>
    /\ analysis_results = << >>
    /\ known_fakes = {SeedKnownFake}
    /\ now = 0
    /\ req = [i \in Requests |-> IdleRequest]
    /\ \E str \in HashInputs : call = [NoCall EXCEPT !.data = [str |-> str]]

\* hashString(str) returns
HashCall ==
    /\ call.handler = ""
    /\ call' = [call EXCEPT !.handler = "hashString",
                            !.resp = [status |-> 0,
                                      body |-> [number |-> hashString(call.data.str)]]]
    /\ UNCHANGED <<cache, users, posts, analysis_results, known_fakes, now, req>>

HashNext == HashCall

HashSpec == HashInit /\ [][HashNext]_vars

\* ------------------------------------------------------------------ claims
Done(i) == req[i].pc = "done"

Success(i) == Done(i) /\ req[i].resp.status = 200

\* the request got past validation and its CACHE.put threw
CachePutThrew(i) == Done(i) /\ req[i].content # StrEmpty /\ req[i].putAt < 0

\* the request has an analysis_results row
HasAnalysisRow(i) ==
    \E a \in DOMAIN analysis_results : analysis_results[a].post_id = req[i].postId

\* the request's posts INSERT or its analysis_results INSERT threw
HistoryWriteThrew(i) ==
    /\ Done(i)
    /\ req[i].putAt >= 0
    /\ req[i].postId = 0 \/ ~HasAnalysisRow(i)

\* the response says it was served from the cache
ServedFromCache(resp) == "cached" \in DOMAIN resp.body /\ resp.body.cached = TRUE

\* the fields of a response that carry a verdict
VerdictFields == {"credibility_score", "is_misinformation", "confidence"}

\* C1: a content submitted again inside the validity window of the cache entry of
\* an earlier successful submission is answered from the cache (cached = true)
\* with the score, classification and recommendation of the earlier answer.
C1_RepeatServedFromCache ==
    \A j \in Requests :
        (Success(j) /\ req[j].repeat) =>
            /\ ServedFromCache(req[j].resp)
            /\ \A i \in Requests :
                (Success(i) /\ req[i].content = req[j].content) =>
                    /\ req[i].resp.body.credibility_score
                         = req[j].resp.body.credibility_score
                    /\ req[i].resp.body.is_misinformation
                         = req[j].resp.body.is_misinformation
                    /\ req[i].resp.body.recommendation
                         = req[j].resp.body.recommendation

\* C2: the step that takes an analyze request with empty or missing content
\* answers it with 400 and an error, and leaves the cache, posts and
\* analysis_results as they were.
C2_EmptyContentRejected ==
    [][\A i \in Requests :
          (req[i].pc = "idle" /\ req'[i].pc # "idle" /\ req'[i].content = StrEmpty) =>
              /\ req'[i].pc = "done"
              /\ req'[i].resp.status = 400
              /\ DOMAIN req'[i].resp.body = {"error"}
              /\ UNCHANGED <<cache, posts, analysis_results, call>>]_vars

\* a request was rejected for its empty content while the tables held rows
C2_Witness ==
    \E i \in Requests :
        /\ Done(i)
        /\ req[i].content = StrEmpty
        /\ req[i].resp.status = 400
        /\ Len(posts) > 0
        /\ DOMAIN cache # {}

\* C3: a request whose cache write failed is still answered with a success and
\* its result is in the posts and analysis_results tables.
C3_CacheFailureNotFatal ==
    \A i \in Requests :
        CachePutThrew(i) =>
            /\ req[i].resp.status = 200
            /\ req[i].postId \in DOMAIN posts
            /\ HasAnalysisRow(i)

\* C4: a request one of whose database writes failed is answered with an error
\* status and an error body that carries no score, classification or confidence.
C4_HistoryFailureIsExplicit ==
    \A i \in Requests :
        HistoryWriteThrew(i) =>
            /\ req[i].resp.status >= 400
            /\ "error" \in DOMAIN req[i].resp.body
            /\ DOMAIN req[i].resp.body \cap VerdictFields = {}

\* the analysis_results INSERT of a request threw after its post was inserted
C4_Witness ==
    \E i \in Requests :
        /\ HistoryWriteThrew(i)
        /\ req[i].postId \in DOMAIN posts
        /\ req[i].resp.status = 500

\* C5: wherever a request has its success response, the handler has finished
\* (no store call of it is pending), its posts row exists with its content, and
\* an analysis_results row references that post.
C5_SuccessAfterHistoryWrites ==
    \A i \in Requests :
        req[i].resp.status = 200 =>
            /\ Done(i)
            /\ req[i].postId \in DOMAIN posts
            /\ posts[req[i].postId].content = req[i].content
            /\ HasAnalysisRow(i)

\* one request has its success response while another is between its two INSERTs
C5_Witness ==
    \E i, j \in Requests :
        /\ Success(i)
        /\ req[j].pc = "insert_analysis"
        /\ req[j].postId < req[i].postId

\* no analyze request is in flight
Quiescent == \A i \in Requests : req[i].pc \in {"idle", "done"}

\* C6: when no analyze request is in flight, every cache entry has a posts row
\* whose content has that cache key, with an analysis_results row of the same
\* score and classification.
C6_CacheDerivedFromHistory ==
    Quiescent =>
        \A key \in DOMAIN cache :
            \E p \in DOMAIN posts, a \in DOMAIN analysis_results :
                /\ cacheKey(posts[p].content) = key
                /\ analysis_results[a].post_id = posts[p].id
                /\ analysis_results[a].credibility_score
                     = cache[key].value.credibility_score
                /\ (analysis_results[a].is_misinformation = 1)
                     = cache[key].value.is_misinformation

\* the content's hash is a content_hash of the known_fakes registry
KnownFake(content) == \E r \in known_fakes : r.content_hash = hashString(content)

\* C7: every success response for a content of the known_fakes registry has the
\* verdict CONFIRMED_FAKE, and the report count of each registry record has
\* grown by one for each such response.
C7_KnownFakeConfirmed ==
    /\ \A i \in Requests :
        (Success(i) /\ KnownFake(req[i].content)) =>
            /\ "verdict" \in DOMAIN req[i].resp.body
            /\ req[i].resp.body.verdict = "CONFIRMED_FAKE"
    /\ \A r \in known_fakes :
        r.report_count =
            SeedKnownFake.report_count
            + Cardinality({i \in Requests :
                             Success(i) /\ hashString(req[i].content) = r.content_hash})

\* the request has computed its cache key
Keyed(i) == req[i].pc # "idle" /\ req[i].content # StrEmpty

\* C8: two requests computed the same cache key if and only if they carry the
\* same content.
C8_KeyIffSameContent ==
    \A i, j \in Requests :
        (Keyed(i) /\ Keyed(j)) =>
            ((req[i].cacheKey = req[j].cacheKey) <=> (req[i].content = req[j].content))

\* every analyze request that has arrived carries content c, and all are answered
AllIdenticalDone(c) ==
    /\ \E i \in Requests : req[i].pc # "idle"
    /\ \A i \in Requests : req[i].pc # "idle" => (req[i].content = c /\ Done(i))

\* the cache holds one entry, under the key of c, with the value one request for c writes
OneEntryFor(c) ==
    /\ DOMAIN cache = {cacheKey(c)}
    /\ cache[cacheKey(c)].value
         = CacheValue(credibilityScoreOf(c), isMisinformationOf(credibilityScoreOf(c)))

C10_VerdictDependsOnContentOnly ==
    \A i, j \in Requests :
        (Success(i) /\ Success(j) /\ req[i].content = req[j].content) =>
            /\ req[i].resp.body.credibility_score = req[j].resp.body.credibility_score
            /\ req[i].resp.body.is_misinformation = req[j].resp.body.is_misinformation
            /\ req[i].resp.body.confidence = req[j].resp.body.confidence

\* two success responses for one content, to different users, the second arriving
\* when the cache and the tables already hold the first
C10_Witness ==
    \E i, j \in Requests :
        /\ Success(i) /\ Success(j)
        /\ req[i].content = req[j].content
        /\ req[i].userId # req[j].userId
        /\ req[i].postId < req[j].postId
        /\ req[j].repeat

\* the score and the confidence of a response body or table row are in range:
\* 0 <= score <= 100 and 0.0 <= confidence <= 1.0
InRange(r) ==
    /\ 0 <= r.credibility_score
    /\ r.credibility_score <= 100 * Hundredths
    /\ 0 <= r.confidence
    /\ r.confidence <= Hundredths

\* C11: the score and the confidence of every success response and of every
\* analysis_results row satisfy 0 <= score <= 100 and 0.0 <= confidence <= 1.0.
C11_ScoreAndConfidenceInRange ==
    /\ \A i \in Requests : Success(i) => InRange(req[i].resp.body)
    /\ \A a \in DOMAIN analysis_results : InRange(analysis_results[a])

\* a suspicious content was scored, stored and answered
C11_Witness ==
    \E i \in Requests :
        /\ Success(i)
        /\ foundSuspicious(req[i].content)
        /\ req[i].resp.body.credibility_score = ScoreSuspicious
        /\ \E a \in DOMAIN analysis_results :
            /\ analysis_results[a].post_id = req[i].postId
            /\ analysis_results[a].credibility_score = ScoreSuspicious

\* the verdict band of a score in points (README.md, Verdicts), a heuristic
\* score below 30 reporting LIKELY_FAKE
Band(points) ==
    IF points >= 70 THEN "VERIFIED"
    ELSE IF points >= 50 THEN "UNCLEAR"
    ELSE "LIKELY_FAKE"

\* the whole points of a score held in hundredths (the bands' cutoffs are whole)
Points(score) == score \div Hundredths

\* C12: every success response reports a verdict, and it is the band of the
\* response's score: >= 70 VERIFIED, 50..69 UNCLEAR, below 50 LIKELY_FAKE.
C12_VerdictIsBandOfScore ==
    \A i \in Requests :
        Success(i) =>
            /\ "verdict" \in DOMAIN req[i].resp.body
            /\ req[i].resp.body.verdict = Band(Points(req[i].resp.body.credibility_score))

\* x clamped to [0, 100]
Clamp(x) == IF x < 0 THEN 0 ELSE IF x > 100 THEN 100 ELSE x

RECURSIVE Sum(_)
\* the sum of a set of numbers
Sum(S) == IF S = {} THEN 0 ELSE LET x == CHOOSE y \in S : TRUE IN x + Sum(S \ {x})

\* the scores README.md's algorithm can give a content: base 50, -40 when a
\* suspicious pattern fires, and any of +30, +15, +10, -15 for the other signals
DocumentedScores(content) ==
    { Clamp(50 + Sum(S) + (IF foundSuspicious(content) THEN -40 ELSE 0)) :
        S \in SUBSET {30, 15, 10, -15} }

\* C13: the score of every success response is a score the documented algorithm
\* gives: the base of 50 plus the deltas of the signals that fire, clamped to
\* [0, 100].
C13_ScoreIsBasePlusDeltas ==
    \A i \in Requests :
        Success(i) =>
            \E points \in DocumentedScores(req[i].content) :
                req[i].resp.body.credibility_score = points * Hundredths

\* C14: a success response for "Breaking news: Scientists discover cure for
\* aging!", which is no known fake, is flagged as misinformation, has a score
\* in the LIKELY_FAKE band (30 <= score < 50) and a reason reporting
\* sensational language.
C14_BreakingNewsLikelyFake ==
    \A i \in Requests :
        (Success(i) /\ req[i].content = StrBreakingNews /\ ~KnownFake(StrBreakingNews)) =>
            /\ req[i].resp.body.is_misinformation = TRUE
            /\ req[i].resp.body.credibility_score >= 30 * Hundredths
            /\ req[i].resp.body.credibility_score < 50 * Hundredths
            /\ "reasons" \in DOMAIN req[i].resp.body

\* C15: every cache entry expires 3600 seconds after a write of a request under
\* its key and is not held once that time is reached; until then the entry a
\* request wrote is held; and no step of a handler removes an entry.
C15_EntriesLiveOneHour ==
    [][/\ \A key \in DOMAIN cache' :
            /\ cache'[key].expiration > now'
            /\ \E i \in Requests :
                /\ req'[i].putAt >= 0
                /\ req'[i].cacheKey = key
                /\ cache'[key].expiration = req'[i].putAt + 3600
       /\ \A i \in Requests :
            (req'[i].putAt >= 0 /\ now' < req'[i].putAt + 3600) =>
                req'[i].cacheKey \in DOMAIN cache'
       /\ req' # req => DOMAIN cache \subseteq DOMAIN cache']_vars

\* an entry written at time 0 by a request that succeeded is gone at time 3600
C15_Witness ==
    \E i \in Requests :
        /\ Success(i)
        /\ req[i].putAt = 0
        /\ now = 3600
        /\ req[i].cacheKey \notin DOMAIN cache

\* s is a prefix of t
IsPrefix(s, t) == Len(s) <= Len(t) /\ \A k \in DOMAIN s : t[k] = s[k]

\* C16: every step leaves the rows of posts and of analysis_results as they
\* were and at most appends rows.
C16_HistoryAppendOnly ==
    [][IsPrefix(posts, posts') /\ IsPrefix(analysis_results, analysis_results')]_vars

\* two requests have each appended a posts row and an analysis_results row
C16_Witness ==
    /\ Len(posts) >= 2
    /\ Len(analysis_results) >= 2
    /\ posts[1].content # posts[2].content
    /\ posts[1].user_id = posts[2].user_id

\* C17: the post_id of a success response names the posts row of that request
\* (its content and user), an analysis_results row of that request references
\* it, no two success responses share a post_id, and no two rows of a table
\* share an id.
C17_PostIdIdentifiesOwnRow ==
    /\ \A i \in Requests :
        Success(i) =>
            /\ req[i].resp.body.post_id \in DOMAIN posts
            /\ posts[req[i].resp.body.post_id].id = req[i].resp.body.post_id
            /\ posts[req[i].resp.body.post_id].content = req[i].content
            /\ posts[req[i].resp.body.post_id].user_id = req[i].userId
            /\ \E a \in DOMAIN analysis_results :
                /\ analysis_results[a].post_id = req[i].resp.body.post_id
                /\ analysis_results[a].user_id = req[i].userId
                /\ analysis_results[a].credibility_score = req[i].credibilityScore
            /\ \A j \in Requests :
                (Success(j) /\ j # i) =>
                    req[j].resp.body.post_id # req[i].resp.body.post_id
    /\ \A k, m \in DOMAIN posts : posts[k].id = posts[m].id => k = m
    /\ \A k, m \in DOMAIN analysis_results :
        /\ analysis_results[k].id = analysis_results[m].id => k = m
        /\ analysis_results[k].post_id = analysis_results[m].post_id => k = m

\* two requests with different contents interleaved and both succeeded: the
\* second inserted its post between the two INSERTs of the first
C17_Witness ==
    /\ Success(1) /\ Success(2)
    /\ req[1].content # req[2].content
    /\ req[1].postId < req[2].postId
    /\ \E a, b \in DOMAIN analysis_results :
        /\ a < b
        /\ analysis_results[a].post_id = req[2].postId
        /\ analysis_results[b].post_id = req[1].postId

\* C18: a successful listing answered to a caller holds only rows of that
\* caller, newest first, and holds the post of every scan persisted for that
\* caller while the listing is below the page limit.
C18_ListingIsCallersOwn ==
    \A caller \in Callers :
        \A r \in handlePosts(caller) :
            r.status = 200 =>
                /\ \A x \in DOMAIN r.body.posts : r.body.posts[x].user_id = caller
                /\ \A x, y \in DOMAIN r.body.posts :
                    x < y => r.body.posts[x].created_at >= r.body.posts[y].created_at
                /\ \A i \in Requests :
                    (Success(i) /\ req[i].userId = caller /\ r.body.count < PostsLimit) =>
                        \E x \in DOMAIN r.body.posts :
                            r.body.posts[x].id = req[i].postId

\* the position of a handler in its run
Rank(pc) ==
    CASE pc = "idle" -> 0
      [] pc = "cache_put" -> 1
      [] pc = "insert_post" -> 2
      [] pc = "insert_analysis" -> 3
      [] pc = "done" -> 4

InFlight(i) == req[i].pc \in {"cache_put", "insert_post", "insert_analysis"}

\* the store call request i waits for returns or throws
StoreCallEnds(i) ==
    \/ CachePutOk(i) \/ CachePutFail(i)
    \/ InsertPostOk(i) \/ InsertPostFail(i)
    \/ InsertAnalysisOk(i) \/ InsertAnalysisFail(i)

\* C19: a request holds a response exactly when it is done, and a request in
\* flight can always take the end of its store call; each step of a handler
\* moves one request forward and never back, a done request changes no more,
\* and the cache is written only by the step that leaves the cache write, the
\* posts table only (one row) by the step that leaves the posts INSERT, the
\* analysis_results table only (one row) by the step that leaves the
\* analysis_results INSERT: so a request ends within four steps with one
\* response, at most one cache write and at most two database writes.
C19_OneResponseBoundedWork ==
    /\ [](\A i \in Requests :
            /\ Done(i) <=> req[i].resp # NoResponse
            /\ InFlight(i) => ENABLED StoreCallEnds(i))
    /\ [][req' # req =>
            \E i \in Requests :
                /\ \A j \in Requests : j # i => req'[j] = req[j]
                /\ Rank(req'[i].pc) > Rank(req[i].pc)
                /\ cache' # cache => req[i].pc = "cache_put"
                /\ posts' # posts =>
                    req[i].pc = "insert_post" /\ Len(posts') = Len(posts) + 1
                /\ analysis_results' # analysis_results =>
                    /\ req[i].pc = "insert_analysis"
                    /\ Len(analysis_results') = Len(analysis_results) + 1]_vars

\* one request ended with 500 after its posts INSERT threw, the other went
\* through its three store calls and ended with 200
C19_Witness ==
    \E i, j \in Requests :
        /\ Success(i)
        /\ Done(j) /\ req[j].resp.status = 500
        /\ req[j].putAt >= 0
        /\ req[j].postId = 0

\* the user id a request without user_id is given
AnonymousSentinel == UserIdOf([content |-> {}, user_id |-> {}])

\* C20: the rows of a successful request carry the request's user id, both the
\* same, and when that is the id given to requests without user_id, it is the
\* id of no row of users.
C20_AnonymousIsNoRealUser ==
    \A i \in Requests :
        Success(i) =>
            /\ posts[req[i].postId].user_id = req[i].userId
            /\ \A a \in DOMAIN analysis_results :
                analysis_results[a].post_id = req[i].postId =>
                    analysis_results[a].user_id = req[i].userId
            /\ req[i].userId = AnonymousSentinel =>
                \A u \in users : u.id # AnonymousSentinel

\* the analysis_results rows that reference posts row k
AnalysisRowsOf(k) ==
    {a \in DOMAIN analysis_results : analysis_results[a].post_id = posts[k].id}

\* C21: a request that has ended has added a posts row and exactly one
\* analysis_results row referencing it, or no row at all; and every posts row
\* has its analysis row unless the request that inserted it is still running.
C21_HistoryWritesAtomic ==
    /\ \A i \in Requests :
        Done(i) =>
            \/ req[i].postId = 0
            \/ /\ req[i].postId \in DOMAIN posts
               /\ Cardinality(AnalysisRowsOf(req[i].postId)) = 1
    /\ \A k \in DOMAIN posts :
        \/ AnalysisRowsOf(k) # {}
        \/ \E i \in Requests : req[i].pc = "insert_analysis" /\ req[i].postId = posts[k].id

\* the flag as the column is_misinformation holds it
FlagColumn(flag) == IF flag THEN 1 ELSE 0

\* C22: the score and flag of a success response are those of the one
\* analysis_results row of the returned post_id, and those of the value the
\* request's cache write stored under the request's key (the locals the
\* response is built from are the ones written, and they never change).
C22_ThreeCopiesAgree ==
    /\ [](\A i \in Requests :
            Success(i) =>
                /\ req[i].resp.body.credibility_score = req[i].credibilityScore
                /\ req[i].resp.body.is_misinformation = req[i].isMisinformation
                /\ \E a \in DOMAIN analysis_results :
                    analysis_results[a].post_id = req[i].resp.body.post_id
                /\ \A a \in DOMAIN analysis_results :
                    analysis_results[a].post_id = req[i].resp.body.post_id =>
                        /\ analysis_results[a].credibility_score =
                                req[i].resp.body.credibility_score
                        /\ analysis_results[a].is_misinformation =
                                FlagColumn(req[i].resp.body.is_misinformation))
    /\ [][\A i \in Requests :
            /\ req[i].pc # "idle" =>
                /\ req'[i].credibilityScore = req[i].credibilityScore
                /\ req'[i].isMisinformation = req[i].isMisinformation
                /\ req'[i].cacheKey = req[i].cacheKey
            /\ (req[i].putAt < 0 /\ req'[i].putAt >= 0) =>
                /\ req'[i].cacheKey \in DOMAIN cache'
                /\ cache'[req'[i].cacheKey].value.credibility_score =
                        req'[i].credibilityScore
                /\ cache'[req'[i].cacheKey].value.is_misinformation =
                        req'[i].isMisinformation]_vars

\* a flagged request succeeded and the three copies are there to compare
C22_Witness ==
    \E i \in Requests :
        /\ Success(i)
        /\ req[i].resp.body.is_misinformation
        /\ req[i].cacheKey \in DOMAIN cache
        /\ cache[req[i].cacheKey].value.is_misinformation
        /\ \E a \in DOMAIN analysis_results :
            /\ analysis_results[a].post_id = req[i].resp.body.post_id
            /\ analysis_results[a].is_misinformation = 1

\* the content holds one of the keywords, letters compared without their case
KeywordInAnyCase(content) ==
    \E keyword \in suspiciousKeywords :
        \E k \in 0..(Len(content) - Len(keyword)) :
            \A j \in 1..Len(keyword) : LowerChar(content[k + j]) = LowerChar(keyword[j])

Answered(handler) == call' # call /\ call'.handler = handler

\* the username a register body stands for: the one supplied, or the email
EffectiveUsername(data) == IF data.username = {} THEN data.email ELSE data.username

\* the register body lacks a field, or its email or effective username is taken
RegisterRefused(data) ==
    \/ data.email = {}
    \/ data.password = {}
    \/ \E u \in users : data.email = {u.email} \/ EffectiveUsername(data) = {u.username}

\* no two users rows share an email, a username or an id
UsersUnique ==
    \A u, v \in users :
        (u.email = v.email \/ u.username = v.username \/ u.id = v.id) => u = v

\* C24 as stated: users rows are unique in email and in username, and a
\* register request answers 400 with users unchanged exactly when a field is
\* missing or its email or effective username is taken.
C24_RegisterFailsIffTaken ==
    /\ []UsersUnique
    /\ [][Answered("register") =>
            ((call'.resp.status = 400 /\ users' = users) <=> RegisterRefused(call'.data))]_vars

\* C24: users rows are unique in email and in username; a register request
\* whose field is missing or whose email or effective username is taken
\* answers 400; every 400 leaves users unchanged, also the one given when the
\* INSERT throws for another reason; and a register that succeeds was not
\* refused and adds exactly one row, with its email, its effective username
\* and the returned id.
C24_RegisterKeepsUsersUnique ==
    /\ []UsersUnique
    /\ [][Answered("register") =>
            /\ call'.resp.status \in {200, 400}
            /\ RegisterRefused(call'.data) => call'.resp.status = 400
            /\ call'.resp.status = 400 => users' = users
            /\ call'.resp.status = 200 =>
                /\ ~RegisterRefused(call'.data)
                /\ users \subseteq users'
                /\ Cardinality(users') = Cardinality(users) + 1
                /\ \A u \in users' \ users :
                    /\ {u.email} = call'.data.email
                    /\ {u.username} = EffectiveUsername(call'.data)
                    /\ u.id = call'.resp.body.user_id]_vars

\* after a user was registered, a register with a taken email was refused
C24_Witness ==
    /\ Cardinality(users) = 2
    /\ call.handler = "register"
    /\ call.resp.status = 400
    /\ call.data.password # {}
    /\ \E u \in users : u.id # SeedUserId /\ call.data.email = {u.email}

\* a users row has the submitted email
EmailKnown(data) == \E u \in users : data.email = {u.email}

\* C25 as stated: login answers 401 exactly when no user has the submitted
\* email, and otherwise answers 200 with a token for that user; it changes no
\* table and not the cache.
C25_LoginDependsOnEmailOnly ==
    [][Answered("login") =>
        /\ call'.resp.status = 401 <=> ~EmailKnown(call'.data)
        /\ EmailKnown(call'.data) =>
            /\ call'.resp.status = 200
            /\ \E u \in users :
                /\ call'.data.email = {u.email}
                /\ call'.resp.body.user.id = u.id
        /\ UNCHANGED <<cache, users, posts, analysis_results, known_fakes>>]_vars

\* C25: login answers 401 only when no user has the submitted email, 200 only
\* when one has, then with a token and the fields of that user, and never 401
\* when one has, whatever the password; its only other answer is the 500 of a
\* query that throws; it changes no table and not the cache.
C25_LoginIgnoresPassword ==
    [][Answered("login") =>
        /\ call'.resp.status \in {200, 401, 500}
        /\ call'.resp.status = 401 => ~EmailKnown(call'.data)
        /\ EmailKnown(call'.data) => call'.resp.status # 401
        /\ call'.resp.status = 200 =>
            \E u \in users :
                /\ call'.data.email = {u.email}
                /\ call'.resp.body.user =
                        [id |-> u.id, email |-> u.email, username |-> u.username]
                /\ call'.resp.body.access_token = <<"token", u.id, now'>>
        /\ UNCHANGED <<cache, users, posts, analysis_results, known_fakes>>]_vars

\* a registered user was given a token for a password that is not theirs
C25_Witness ==
    /\ call.handler = "login"
    /\ call.resp.status = 200
    /\ call.data.password = {"wrong"}
    /\ \E u \in users :
        /\ call.data.email = {u.email}
        /\ u.hashed_password = HashedPassword("pw")

\* C26: a request that is not answered by the register branch or by the POST
\* of handleAnalysis changes no table and not the cache; OPTIONS is answered
\* 204, an unknown path 404, an unsupported method 405.
C26_OtherRequestsWriteNothing ==
    [][(call' # call /\ call'.handler \notin {"register", "analyze"}) =>
        /\ UNCHANGED <<cache, users, posts, analysis_results, known_fakes>>
        /\ call'.method = "OPTIONS" => call'.resp.status = 204
        /\ call'.handler = "notFound" => call'.resp.status = 404
        /\ call'.handler = "methodNotAllowed" => call'.resp.status = 405
        /\ call'.handler \in {"health", "root"} => call'.resp.status = 200]_vars

\* GET posts was answered with a listing that holds a row
C26_Witness ==
    /\ call.handler = "posts"
    /\ call.method = "GET"
    /\ call.resp.status = 200
    /\ call.resp.body.count >= 1

\* C27: a request that is not OPTIONS is answered by health when its path
\* holds 'health', else by root when the path is '/' or '/api/v1', else by
\* handleAuth when it holds '/auth', else by handleAnalysis when it holds
\* '/analyze', else by handlePosts when it holds '/posts', else with 404.
C27_DispatchPrecedence ==
    (call # NoCall /\ call.method # "OPTIONS") =>
        call.route =
            IF includes(call.pathname, <<104, 101, 97, 108, 116, 104>>) THEN "health"
            ELSE IF call.pathname \in {<<47>>, <<47, 97, 112, 105, 47, 118, 49>>}
                 THEN "root"
            ELSE IF includes(call.pathname, <<47, 97, 117, 116, 104>>) THEN "handleAuth"
            ELSE IF includes(call.pathname, <<47, 97, 110, 97, 108, 121, 122, 101>>)
                 THEN "handleAnalysis"
            ELSE IF includes(call.pathname, <<47, 112, 111, 115, 116, 115>>)
                 THEN "handlePosts"
            ELSE "notFound"

\* a POST to '/api/v1/auth/health' was answered by the health check
C27_Witness ==
    /\ call.method = "POST"
    /\ call.pathname = PathAuthHealth
    /\ call.route = "health"
    /\ call.resp.status = 200

\* the posts rows of the user the listing is made for
ListedUserPosts == {k \in DOMAIN posts : posts[k].user_id = PostsUserId}

\* C28: a listing holds at most 20 rows, as many as there are posts up to 20;
\* count is its length; a post without analysis_results row is listed with
\* null score and flag; and posts are left out only beyond 20, the oldest.
C28_ListingAtMostTwenty ==
    (call.handler = "posts" /\ call.resp.status = 200) =>
        LET listing == call.resp.body.posts
        IN /\ Len(listing) <= 20
           /\ call.resp.body.count = Len(listing)
           /\ Len(listing) = IF Cardinality(ListedUserPosts) <= 20
                             THEN Cardinality(ListedUserPosts) ELSE 20
           /\ \A x, y \in DOMAIN listing : listing[x].id = listing[y].id => x = y
           /\ \A k \in ListedUserPosts :
                \/ \E x \in DOMAIN listing :
                    /\ listing[x].id = posts[k].id
                    /\ AnalysisRowsOf(k) = {} =>
                        /\ listing[x].credibility_score = {}
                        /\ listing[x].is_misinformation = {}
                    /\ AnalysisRowsOf(k) # {} =>
                        \E a \in AnalysisRowsOf(k) :
                            listing[x].credibility_score =
                                {analysis_results[a].credibility_score}
                \/ /\ Len(listing) = 20
                   /\ \A x \in DOMAIN listing : listing[x].created_at >= posts[k].created_at

\* a listing of 20 rows out of more posts, one of the rows without analysis
C28_Witness ==
    /\ call.handler = "posts"
    /\ call.resp.status = 200
    /\ Cardinality(ListedUserPosts) > 20
    /\ call.resp.body.count = 20
    /\ \E x \in DOMAIN call.resp.body.posts :
        call.resp.body.posts[x].credibility_score = {}

\* 31 * h + c wrapped to 32 bits, on limbs
Times31Plus(h, c) ==
    LET lo == 31 * h[2] + c
        hi == 31 * h[1] + (lo \div 65536)
    IN <<hi % 65536, lo % 65536>>

\* h after the last character: 0 at the start, 31 * h + charCode at each one
WrappedHash(str) ==
    LET rest[k \in 1..(Len(str) + 1), h \in (0..65535) \X (0..65535)] ==
            IF k > Len(str) THEN h ELSE rest[k + 1, Times31Plus(h, str[k])]
    IN rest[1, <<0, 0>>]

\* the absolute value of the signed 32-bit integer with these bits: the
\* bits themselves below 2^31, else 2^32 minus them (all bits flipped, plus 1)
Magnitude(h) ==
    IF h[1] < 32768
    THEN h
    ELSE LET lo == (65535 - h[2]) + 1
         IN <<((65535 - h[1]) + (lo \div 65536)) % 65536, lo % 65536>>

\* C29: hashString returns the absolute value of the signed 32-bit h, h being
\* 0 at the start and 31 * h + charCode wrapped at each character; the result
\* is in [0, 2^31]; it is 0 for the empty string and 2^31 when h is -2^31.
C29_HashIsAbsOfWrapped ==
    call.handler = "hashString" =>
        LET str == call.data.str
            number == call.resp.body.number
        IN /\ number = Magnitude(WrappedHash(str))
           /\ number[1] < 32768 \/ number = <<32768, 0>>
           /\ number[1] \in 0..65535 /\ number[2] \in 0..65535
           /\ str = << >> => number = <<0, 0>>
           /\ WrappedHash(str) = <<32768, 0>> => number = <<32768, 0>>

\* a string whose h is -2^31 was hashed to 2^31
C29_Witness ==
    /\ call.handler = "hashString"
    /\ WrappedHash(call.data.str) = <<32768, 0>>
    /\ call.resp.body.number = <<32768, 0>>

====
